---- MODULE Spec2Model ----
(***************************************************************************)
(* TinyImageNet (colorization/data/tiny_image_net.py): the per-split file  *)
(* indices, the cleaning pass and the item accessor, as a state machine.   *)
(* Strings are sequences of one-character strings, so that rsplit, the     *)
(* regular expression \d+$ and int() are computed as Python computes them. *)
(***************************************************************************)
EXTENDS Integers, Sequences, FiniteSets, TLC

VARIABLES disk, disk0, pc, args, err, _root, _dataset, _image_size, limit,
          _indices, built, cur, index_rgb_only, ret

vars == <<disk, disk0, pc, args, err, _root, _dataset, _image_size, limit,
          _indices, built, cur, index_rgb_only, ret>>

(***************************************************************************)
(* Bounds of the inputs.                                                   *)
(***************************************************************************)
MaxLimit == 2
MaxPos == 3
MaxStep == 2

(***************************************************************************)
(* Python strings.                                                         *)
(***************************************************************************)
\* The characters used, in code point order (str comparison is by code point).
AsciiOrder ==
    <<".", "/", "0", "1", "2", "3", "4", "5", "6", "7", "8", "9", "_",
      "a", "b", "c", "d", "e", "f", "g", "h", "i", "j", "k", "l", "m",
      "n", "o", "p", "q", "r", "s", "t", "u", "v", "w", "x", "y", "z">>

Ord(c) == CHOOSE i \in 1..Len(AsciiOrder) : AsciiOrder[i] = c

Digits == {"0", "1", "2", "3", "4", "5", "6", "7", "8", "9"}

DigitVal(c) == Ord(c) - Ord("0")

Min(a, b) == IF a <= b THEN a ELSE b

Max(a, b) == IF a >= b THEN a ELSE b

\* a < b on str, the characters before the k-th being equal.
RECURSIVE StrLessFrom(_, _, _)
StrLessFrom(a, b, k) ==
    IF k > Len(a) THEN k <= Len(b)
    ELSE IF k > Len(b) THEN FALSE
    ELSE IF a[k] = b[k] THEN StrLessFrom(a, b, k + 1)
    ELSE Ord(a[k]) < Ord(b[k])

\* a < b on str.
StrLess(a, b) == StrLessFrom(a, b, 1)

\* s.rfind(c) within the first k characters, 1-based; 0 when c does not occur.
RECURSIVE RFindFrom(_, _, _)
RFindFrom(s, c, k) ==
    IF k = 0 THEN 0 ELSE IF s[k] = c THEN k ELSE RFindFrom(s, c, k - 1)

RFind(s, c) == RFindFrom(s, c, Len(s))

\* f.rsplit('.', 1)[0]
rsplit_dot(f) ==
    IF RFind(f, ".") = 0 THEN f ELSE SubSeq(f, 1, RFind(f, ".") - 1)

\* re.search(r'\d+$', base): the 1-based start of the trailing digit run,
\* 0 for None.
re_search_digits(base) ==
    LET nondigits == {i \in 1..Len(base) : base[i] \notin Digits}
        last == IF nondigits = {} THEN 0
                ELSE CHOOSE i \in nondigits : \A j \in nondigits : j <= i
    IN  IF last = Len(base) THEN 0 ELSE last + 1

RECURSIVE int(_)
int(num) ==
    IF num = <<>> THEN 0
    ELSE int(SubSeq(num, 1, Len(num) - 1)) * 10 + DigitVal(num[Len(num)])

\* parse_num(f): the sort key (base, int(num)); raised is TRUE when
\* re.search returns None and .start() raises AttributeError.
parse_num(f) ==
    LET base == rsplit_dot(f)
        i == re_search_digits(base)
    IN  IF i = 0
        THEN [raised |-> TRUE, base |-> base, num |-> 0]
        ELSE [raised |-> FALSE, base |-> SubSeq(base, 1, i - 1),
              num |-> int(SubSeq(base, i, Len(base)))]

\* The order of two (str, int) tuples.
KeyLess(k1, k2) ==
    \/ StrLess(k1.base, k2.base)
    \/ k1.base = k2.base /\ k1.num < k2.num

\* os.path.join(a, b)
Join(a, b) ==
    IF b # <<>> /\ b[1] = "/" THEN b
    ELSE IF a = <<>> \/ a[Len(a)] = "/" THEN a \o b
    ELSE a \o <<"/">> \o b

\* os.path.dirname and os.path.basename.
Dirname(p) == IF RFind(p, "/") = 0 THEN <<>> ELSE SubSeq(p, 1, RFind(p, "/") - 1)

Basename(p) == SubSeq(p, RFind(p, "/") + 1, Len(p))

(***************************************************************************)
(* The file system and the image decoder.                                  *)
(***************************************************************************)
IMAGE_SIZE_ACTUAL == 64

Dir == [dir |-> TRUE, readable |-> FALSE, shape |-> <<>>]

\* A file io.imread decodes to an array of this shape.
Img(shape) == [dir |-> FALSE, readable |-> TRUE, shape |-> shape]

\* A file io.imread raises on.
Corrupt == [dir |-> FALSE, readable |-> FALSE, shape |-> <<>>]

RGB == Img(<<IMAGE_SIZE_ACTUAL, IMAGE_SIZE_ACTUAL, 3>>)
GRAY == Img(<<IMAGE_SIZE_ACTUAL, IMAGE_SIZE_ACTUAL>>)
RGBA == Img(<<IMAGE_SIZE_ACTUAL, IMAGE_SIZE_ACTUAL, 4>>)
SMALL == Img(<<IMAGE_SIZE_ACTUAL \div 2, IMAGE_SIZE_ACTUAL \div 2, 3>>)
WIDE == Img(<<IMAGE_SIZE_ACTUAL, IMAGE_SIZE_ACTUAL \div 2, 3>>)

DATASET_TRAIN == <<"t", "r", "a", "i", "n">>
DATASET_VAL == <<"v", "a", "l">>
DATASET_TEST == <<"t", "e", "s", "t">>
IMAGES == <<"i", "m", "a", "g", "e", "s">>

CLEAN_ASSUME == "assume"
CLEAN_SKIP == "skip"
CLEAN_PURGE == "purge"

\* The order of the loops of _build_indices and of the dict _indices.
Datasets == <<DATASET_TRAIN, DATASET_VAL, DATASET_TEST>>

\* The file system resolves a path to the file it names, however the path is
\* spelled: the disk is keyed by the path relative to the current directory
\* without leading ./ components.
RECURSIVE Resolve(_)
Resolve(p) ==
    IF Len(p) >= 2 /\ p[1] = "." /\ p[2] = "/"
    THEN Resolve(SubSeq(p, 3, Len(p)))
    ELSE p

\* The file or directory at path p.
entry(d, p) == d[Resolve(p)]

\* os.path.isdir
isdir(d, p) == Resolve(p) \in DOMAIN d /\ entry(d, p).dir

\* os.remove that leaves the file.
os_remove_nothing(d, p) == d

\* os.remove
os_remove(d, p) == [q \in (DOMAIN d) \ {Resolve(p)} |-> d[q]]

\* A set of strings as the sequence in ascending order.
Ascending(S) ==
    [k \in 1..Cardinality(S) |->
        CHOOSE p \in S : Cardinality({q \in S : StrLess(q, p)}) = k - 1]

Perms(n) == {f \in [1..n -> 1..n] : \A i, j \in 1..n : f[i] = f[j] => i = j}

\* glob(os.path.join(path, '*')): the entries of directory path whose names
\* do not start with a dot, in the order the file system lists them. That
\* order is arbitrary: it is the ascending one rearranged by sigma. Each
\* entry is returned as path joined with its name, path as it was given.
glob(d, path, sigma) ==
    LET S == {p \in DOMAIN d : /\ isdir(d, path)
                               /\ RFind(p, "/") # 0
                               /\ Dirname(p) = Resolve(path)
                               /\ Basename(p) # <<>>
                               /\ Basename(p)[1] # "."}
        c == Ascending(S)
        n == Cardinality(S)
    IN  [k \in 1..n |->
            Join(path, Basename(c[CHOOSE i \in 1..n :
                Cardinality({j \in 1..n : sigma[j] < sigma[i]}) = k - 1]))]

\* The order list.sort() compares by: that of the parse_num keys, or that of
\* the strings themselves.
ItemLess(sort_num, x, y) == IF sort_num THEN KeyLess(x, y) ELSE StrLess(x, y)

\* list.sort() is stable: the element at i goes after the smaller elements
\* and after the equal ones that stood before it.
SortRank(keys, sort_num, i) ==
    Cardinality({j \in 1..Len(keys) :
        \/ ItemLess(sort_num, keys[j], keys[i])
        \/ ~ItemLess(sort_num, keys[i], keys[j]) /\ j < i})

SortedBy(files, keys, sort_num) ==
    [k \in 1..Len(files) |->
        files[CHOOSE i \in 1..Len(files) : SortRank(keys, sort_num, i) = k - 1]]

\* _listdir(path, sort_num) on what glob returned.
_listdir(files, sort_num) ==
    IF sort_num
    THEN LET keys == [i \in 1..Len(files) |-> parse_num(files[i])]
         IN  IF \E i \in 1..Len(files) : keys[i].raised
             THEN [exc |-> "AttributeError", files |-> files]
             ELSE [exc |-> "none", files |-> SortedBy(files, keys, TRUE)]
    ELSE [exc |-> "none", files |-> SortedBy(files, files, FALSE)]

\* The loop of _build_index over the class directories, from the k-th on.
RECURSIVE TrainLoop(_, _, _, _, _)
TrainLoop(d, sigma, classes, k, acc) ==
    IF k > Len(classes) THEN [exc |-> "none", index |-> acc]
    ELSE LET images_root == Join(classes[k], IMAGES)
             l == _listdir(glob(d, images_root, sigma), TRUE)
         IN  IF l.exc # "none" THEN [exc |-> l.exc, index |-> acc]
             ELSE TrainLoop(d, sigma, classes, k + 1, acc \o l.files)

_build_index(d, sigma, root, dataset) ==
    LET dataset_path == Join(root, dataset)
    IN  IF dataset = DATASET_TRAIN
        THEN TrainLoop(d, sigma, _listdir(glob(d, dataset_path, sigma), FALSE).files,
                       1, <<>>)
        ELSE LET l == _listdir(glob(d, Join(dataset_path, IMAGES), sigma), TRUE)
             IN  IF l.exc # "none" THEN [exc |-> l.exc, index |-> <<>>]
                 ELSE [exc |-> "none", index |-> l.files]

\* _build_indices from the k-th dataset on; idx is self._indices so far.
RECURSIVE BuildLoop(_, _, _, _, _)
BuildLoop(d, sigma, root, k, idx) ==
    IF k > Len(Datasets) THEN [exc |-> "none", indices |-> idx]
    ELSE LET b == _build_index(d, sigma, root, Datasets[k])
             idx2 == [s \in (DOMAIN idx) \union {Datasets[k]} |->
                         IF s = Datasets[k] THEN b.index ELSE idx[s]]
         IN  IF b.exc # "none" THEN [exc |-> b.exc, indices |-> idx2]
             ELSE BuildLoop(d, sigma, root, k + 1, idx2)

_build_indices(d, sigma, root) == BuildLoop(d, sigma, root, 1, <<>>)

(***************************************************************************)
(* The directory trees the handle is constructed on.                       *)
(***************************************************************************)
ROOT == <<"r">>
DOTROOT == <<".", "/", "r">>
NOROOT == <<"n">>

C1DIR == <<"c", "1">>
C2DIR == <<"c", "2">>

\* root/train/<class>/images/<name>
TrainFile(root, class, name) ==
    Join(Join(Join(Join(root, DATASET_TRAIN), class), IMAGES), name)

\* root/<split>/images/<name>
SplitFile(root, split, name) == Join(Join(Join(root, split), IMAGES), name)

\* The directories of a tree with the given class directories.
Skeleton(root, classes) ==
    {<<root, Dir>>, <<Join(root, DATASET_TRAIN), Dir>>,
     <<Join(root, DATASET_VAL), Dir>>,
     <<Join(Join(root, DATASET_VAL), IMAGES), Dir>>,
     <<Join(root, DATASET_TEST), Dir>>,
     <<Join(Join(root, DATASET_TEST), IMAGES), Dir>>}
    \union {<<Join(Join(root, DATASET_TRAIN), c), Dir>> : c \in classes}
    \union {<<Join(Join(Join(root, DATASET_TRAIN), c), IMAGES), Dir>> : c \in classes}

DiskOf(entries) ==
    [p \in {e[1] : e \in entries} |-> (CHOOSE e \in entries : e[1] = p)[2]]

\* Two classes, five training images, and every kind of non-conforming image.
DiskMixed ==
    DiskOf(Skeleton(ROOT, {C1DIR, C2DIR}) \union
      {<<TrainFile(ROOT, C1DIR, <<"a", "2", ".", "p">>), RGB>>,
       <<TrainFile(ROOT, C1DIR, <<"a", "1", "0", ".", "p">>), GRAY>>,
       <<TrainFile(ROOT, C1DIR, <<"a", "1", ".", "p">>), RGB>>,
       <<TrainFile(ROOT, C2DIR, <<"b", "1", ".", "p">>), RGB>>,
       <<TrainFile(ROOT, C2DIR, <<"b", "2", ".", "p">>), WIDE>>,
       <<SplitFile(ROOT, DATASET_VAL, <<"v", "_", "2", ".", "p">>), RGBA>>,
       <<SplitFile(ROOT, DATASET_VAL, <<"v", "_", "1", "0", ".", "p">>), SMALL>>,
       <<SplitFile(ROOT, DATASET_VAL, <<"v", "_", "1", ".", "p">>), RGB>>,
       <<SplitFile(ROOT, DATASET_TEST, <<"t", "1", ".", "p">>), GRAY>>})

\* Names with equal sort keys, a plain file beside the class directories, a
\* hidden file, an empty class and no test directory.
DiskTies ==
    DiskOf((Skeleton(ROOT, {C1DIR, C2DIR})
            \ {<<Join(ROOT, DATASET_TEST), Dir>>,
               <<Join(Join(ROOT, DATASET_TEST), IMAGES), Dir>>}) \union
      {<<Join(Join(ROOT, DATASET_TRAIN), <<"b", ".", "t">>), RGB>>,
       <<TrainFile(ROOT, C2DIR, <<"x", "7", ".", "p">>), RGB>>,
       <<SplitFile(ROOT, DATASET_VAL, <<"a", "1", ".", "p">>), RGB>>,
       <<SplitFile(ROOT, DATASET_VAL, <<"a", "0", "1", ".", "p">>), GRAY>>,
       <<SplitFile(ROOT, DATASET_VAL, <<"a", "2", ".", "p">>), RGB>>,
       <<TrainFile(ROOT, C2DIR, <<".", "h", "1">>), RGB>>})

\* A listed file with no trailing digit run.
DiskNoDigits ==
    DiskOf(Skeleton(ROOT, {C1DIR}) \union
      {<<TrainFile(ROOT, C1DIR, <<"a", "1", ".", "p">>), GRAY>>,
       <<SplitFile(ROOT, DATASET_VAL, <<"x", ".", "p">>), RGB>>,
       <<SplitFile(ROOT, DATASET_TEST, <<"t", "1", ".", "p">>), RGB>>})

\* A file the decoder raises on, after a non-RGB one.
DiskCorrupt ==
    DiskOf(Skeleton(ROOT, {C1DIR}) \union
      {<<TrainFile(ROOT, C1DIR, <<"a", "1", ".", "p">>), GRAY>>,
       <<TrainFile(ROOT, C1DIR, <<"a", "2", ".", "p">>), RGB>>,
       <<SplitFile(ROOT, DATASET_VAL, <<"v", "1", ".", "p">>), RGB>>,
       <<SplitFile(ROOT, DATASET_TEST, <<"t", "1", ".", "p">>), Corrupt>>})

\* Image files whose names have no extension.
DiskNoExtension ==
    DiskOf(Skeleton(ROOT, {C1DIR}) \union
      {<<TrainFile(ROOT, C1DIR, <<"a", "1">>), RGB>>,
       <<SplitFile(ROOT, DATASET_VAL, <<"v", "2">>), RGB>>,
       <<SplitFile(ROOT, DATASET_VAL, <<"v", "1", "0">>), RGB>>,
       <<SplitFile(ROOT, DATASET_TEST, <<"t", "1">>), GRAY>>})

Disks == {DiskMixed, DiskTies, DiskNoDigits, DiskCorrupt, DiskNoExtension}

\* The largest number of entries of one directory.
MaxChildren ==
    LET counts == UNION {{Cardinality({q \in DOMAIN d : Dirname(q) = p}) :
                                p \in DOMAIN d} : d \in Disks}
    IN  CHOOSE n \in counts : \A m \in counts : m <= n

(***************************************************************************)
(* The item accessor.                                                      *)
(***************************************************************************)
\* An optional value: <<>> is None, <<v>> is v.
None == <<>>

Some(v) == <<v>>

\* _is_rgb without the test of the last dimension.
_is_rgb_any_depth(shape) == Len(shape) = 3

_is_rgb(shape) == Len(shape) = 3 /\ shape[3] = 3

\* _has_right_size comparing the two dimensions with each other only.
_has_right_size_square(shape) == shape[1] = shape[2]

_has_right_size(shape) ==
    shape[1] = shape[2] /\ shape[2] = IMAGE_SIZE_ACTUAL

\* util.image.resize(image, size): an array of size x size with the channels kept.
resize(shape, size) == <<size, size, shape[3]>>

\* util.image.rgb_to_lab(image): an array of the same shape.
rgb_to_lab(shape) == shape

\* np.moveaxis(image, -1, 0)
moveaxis_last_first(shape) == <<shape[Len(shape)]>> \o SubSeq(shape, 1, Len(shape) - 1)

\* The names bound at module level by the imports and the class statement.
ModuleNames ==
    {"os", "pickle", "re", "glob", "np", "io", "Dataset", "resize",
     "rgb_to_lab", "TinyImageNet"}

\* _process_image(image_rgb). Line 151 reads the name image and line 152 the
\* name imagelab; a name that is neither local nor global raises NameError.
_process_image(image_rgb, dtype) ==
    LET locals1 == {"self", "image_rgb"}
        locals2 == locals1 \union {"image_lab"}
    IN  IF "image" \notin locals1 \union ModuleNames
        THEN [exc |-> "NameError", shape |-> <<>>, calls |-> <<>>]
        ELSE IF "imagelab" \notin locals2 \union ModuleNames
        THEN [exc |-> "NameError", shape |-> <<>>, calls |-> <<"rgb_to_lab">>]
        ELSE [exc |-> "none",
              shape |-> moveaxis_last_first(rgb_to_lab(image_rgb)),
              calls |-> <<"rgb_to_lab">>]

\* list[index] on a list of length n: the 1-based position, 0 for IndexError.
ListPos(n, index) ==
    IF 0 <= index /\ index < n THEN index + 1
    ELSE IF index < 0 /\ index + n >= 0 THEN index + n + 1
    ELSE 0

\* _getitem(index)
_getitem(d, indices, dataset, image_size, index) ==
    LET l == indices[dataset]
        k == ListPos(Len(l), index)
        image_path == l[k]
    IN  IF k = 0
        THEN [exc |-> "IndexError", shape |-> <<>>, path |-> <<>>, calls |-> <<>>]
        ELSE IF Resolve(image_path) \notin DOMAIN d \/ ~entry(d, image_path).readable
        THEN [exc |-> "DecodeError", shape |-> <<>>, path |-> image_path,
              calls |-> <<"imread">>]
        ELSE IF ~(_is_rgb(entry(d, image_path).shape) /\ _has_right_size(entry(d, image_path).shape))
        THEN [exc |-> "AssertionError", shape |-> <<>>, path |-> image_path,
              calls |-> <<"imread">>]
        ELSE LET image_rgb == IF image_size # IMAGE_SIZE_ACTUAL
                              THEN resize(entry(d, image_path).shape, IMAGE_SIZE_ACTUAL)
                              ELSE entry(d, image_path).shape
                 resized == IF image_size # IMAGE_SIZE_ACTUAL
                            THEN <<"resize">> ELSE <<>>
                 r == _process_image(image_rgb, "float32")
             IN  [exc |-> r.exc, shape |-> r.shape, path |-> image_path,
                  calls |-> <<"imread">> \o resized \o r.calls]

\* __len__ without the limit.
__len__unlimited(indices, dataset, lim) == Len(indices[dataset])

\* __len__()
__len__(indices, dataset, lim) ==
    LET l == Len(indices[dataset])
    IN  IF lim = None THEN l ELSE Min(lim[1], l)

\* slice(start, stop, step).indices(length); step is not 0.
slice_indices(start, stop, step, length) ==
    LET st == IF step = None THEN 1 ELSE step[1]
        lower == IF st < 0 THEN -1 ELSE 0
        upper == IF st < 0 THEN length - 1 ELSE length
        a == IF start = None THEN (IF st < 0 THEN upper ELSE lower)
             ELSE IF start[1] < 0 THEN Max(start[1] + length, lower)
             ELSE Min(start[1], upper)
        b == IF stop = None THEN (IF st < 0 THEN lower ELSE upper)
             ELSE IF stop[1] < 0 THEN Max(stop[1] + length, lower)
             ELSE Min(stop[1], upper)
    IN  <<a, b, st>>

\* range(a, b, st) as the sequence of its elements.
range(a, b, st) ==
    LET n == IF st > 0 /\ a < b THEN (b - a + st - 1) \div st
             ELSE IF st < 0 /\ a > b THEN (a - b - st - 1) \div (-st)
             ELSE 0
    IN  [k \in 1..n |-> a + (k - 1) * st]

\* [self._getitem(i) for i in r], from the k-th element of r on: the items
\* got, the positions _getitem was called on, and the exception that ended it.
RECURSIVE GetAll(_, _, _, _, _, _, _, _)
GetAll(d, indices, dataset, image_size, r, k, items, tried) ==
    IF k > Len(r)
    THEN [exc |-> "none", items |-> items, tried |-> tried]
    ELSE LET g == _getitem(d, indices, dataset, image_size, r[k])
         IN  IF g.exc # "none"
             THEN [exc |-> g.exc, items |-> items, tried |-> Append(tried, r[k])]
             ELSE GetAll(d, indices, dataset, image_size, r, k + 1,
                         Append(items, <<g.shape, g.path>>), Append(tried, r[k]))

\* The range __getitem__ resolves a slice to.
slice_range(indices, dataset, start, stop, step) ==
    LET t == slice_indices(start, stop, step, Len(indices[dataset]))
    IN  range(t[1], t[2], t[3])

(***************************************************************************)
(* The property setters and the cleaning pass.                             *)
(***************************************************************************)
\* The root setter: the exception it raises, "none" when it assigns.
root_setter(d, root) == IF ~isdir(d, root) THEN "ValueError" ELSE "none"

\* The dataset setter.
dataset_setter(dataset) ==
    IF dataset \notin {DATASET_TRAIN, DATASET_VAL, DATASET_TEST}
    THEN "ValueError" ELSE "none"

\* The image_size setter without its check.
image_size_setter_unchecked(image_size) == "none"

\* The image_size setter.
image_size_setter(image_size) ==
    IF ~(image_size >= IMAGE_SIZE_ACTUAL) THEN "AssertionError" ELSE "none"

\* _clean(clean): whether _filter_non_rgb is called and with which purge.
_clean(clean) ==
    IF clean = CLEAN_SKIP THEN [exc |-> "none", filter |-> TRUE, purge |-> FALSE]
    ELSE IF clean = CLEAN_PURGE THEN [exc |-> "none", filter |-> TRUE, purge |-> TRUE]
    ELSE IF clean # CLEAN_ASSUME
    THEN [exc |-> "ValueError", filter |-> FALSE, purge |-> FALSE]
    ELSE [exc |-> "none", filter |-> FALSE, purge |-> FALSE]

\* The loop body deleting every rejected file, purge or not.
filter_entry_always_removes(d, acc, path, purge) ==
    IF ~entry(d, path).readable
    THEN [exc |-> "DecodeError", disk |-> d, acc |-> acc]
    ELSE IF _is_rgb(entry(d, path).shape)
    THEN [exc |-> "none", disk |-> d, acc |-> Append(acc, path)]
    ELSE [exc |-> "none", disk |-> os_remove(d, path), acc |-> acc]

\* One iteration of the inner loop of _filter_non_rgb.
filter_entry(d, acc, path, purge) ==
    IF ~entry(d, path).readable
    THEN [exc |-> "DecodeError", disk |-> d, acc |-> acc]
    ELSE IF _is_rgb(entry(d, path).shape)
    THEN [exc |-> "none", disk |-> d, acc |-> Append(acc, path)]
    ELSE IF purge
    THEN [exc |-> "none", disk |-> os_remove(d, path), acc |-> acc]
    ELSE [exc |-> "none", disk |-> d, acc |-> acc]

(***************************************************************************)
(* The state machine.                                                      *)
(***************************************************************************)
\* The roots a handle is constructed on, and those assigned to it later.
InitRootInputs == {ROOT, DOTROOT, NOROOT}

RootInputs == {ROOT, NOROOT, Join(ROOT, DATASET_VAL)}

DatasetInputs == {DATASET_TRAIN, DATASET_VAL, DATASET_TEST, <<"d", "e", "v">>}

SizeInputs == {IMAGE_SIZE_ACTUAL - 1, IMAGE_SIZE_ACTUAL, 2 * IMAGE_SIZE_ACTUAL}

LimitInputs == {None} \union {Some(n) : n \in -1..MaxLimit}

\* The limits a handle is constructed with; any other is assigned later.
InitLimitInputs == {None, Some(1)}

CleanInputs == {CLEAN_ASSUME, CLEAN_SKIP, CLEAN_PURGE, "wipe"}

IndexInputs == -MaxPos..MaxPos

BoundInputs == {None} \union {Some(n) : n \in -2..MaxPos}

StepInputs == {None, Some(-1), Some(0)} \union {Some(n) : n \in 1..MaxStep}

NoArgs ==
    [root |-> <<>>, dataset |-> <<>>, image_size |-> 0, limit |-> None, clean |-> ""]

NoRet ==
    [op |-> "none", exc |-> "none", value |-> 0, index |-> 0, shape |-> <<>>,
     path |-> <<>>, calls |-> <<>>, range |-> <<>>, tried |-> <<>>, items |-> <<>>]

Init ==
    /\ disk \in Disks
    /\ disk0 = disk
    /\ pc = "new"
    /\ args = NoArgs
    /\ err = "none"
    /\ _root = <<>>
    /\ _dataset = <<>>
    /\ _image_size = 0
    /\ limit = None
    /\ _indices = <<>>
    /\ built = <<>>
    /\ cur = [ds |-> 0, i |-> 0, purge |-> FALSE]
    /\ index_rgb_only = <<>>
    /\ ret = NoRet

\* __init__, lines 34 to 38: the assignments to the properties and fields.
Construct(root, dataset, image_size, lim, clean) ==
    LET e1 == root_setter(disk, root)
        e2 == dataset_setter(dataset)
        e3 == image_size_setter(image_size)
        set == e1 = "none" /\ e2 = "none" /\ e3 = "none"
        exc == IF e1 # "none" THEN e1 ELSE IF e2 # "none" THEN e2 ELSE e3
    IN  /\ pc = "new"
        /\ args' = [root |-> root, dataset |-> dataset, image_size |-> image_size,
                    limit |-> lim, clean |-> clean]
        /\ _root' = IF e1 = "none" THEN root ELSE _root
        /\ _dataset' = IF e1 = "none" /\ e2 = "none" THEN dataset ELSE _dataset
        /\ _image_size' = IF set THEN image_size ELSE _image_size
        /\ limit' = IF set THEN lim ELSE limit
        /\ err' = exc
        /\ pc' = IF exc = "none" THEN "build" ELSE "failed"
        /\ UNCHANGED <<disk, disk0, _indices, built, cur, index_rgb_only, ret>>

\* __init__, line 40: _build_indices(), the directories listed in the order
\* sigma.
Build(sigma) ==
    LET b == _build_indices(disk, sigma, _root)
    IN  /\ pc = "build"
        /\ _indices' = b.indices
        /\ built' = b.indices
        /\ err' = b.exc
        /\ pc' = IF b.exc = "none" THEN "clean" ELSE "failed"
        /\ UNCHANGED <<disk, disk0, args, _root, _dataset, _image_size, limit,
                       cur, index_rgb_only, ret>>

\* The frame of __init__ once it has returned: of its arguments only the
\* cleaning mode is remembered.
Returned(a) == [NoArgs EXCEPT !.clean = a.clean]

\* __init__, line 41: _clean(clean) up to the first iteration of its loops.
Clean ==
    LET c == _clean(args.clean)
    IN  /\ pc = "clean"
        /\ err' = c.exc
        /\ pc' = IF c.exc # "none" THEN "failed"
                 ELSE IF c.filter THEN "filter" ELSE "ready"
        /\ cur' = IF c.filter THEN [ds |-> 1, i |-> 1, purge |-> c.purge] ELSE cur
        /\ args' = IF c.exc = "none" /\ ~c.filter THEN Returned(args) ELSE args
        /\ UNCHANGED <<disk, disk0, _root, _dataset, _image_size, limit,
                       _indices, built, index_rgb_only, ret>>

\* _filter_non_rgb: one entry of the index of the current dataset.
FilterEntry ==
    LET index == _indices[Datasets[cur.ds]]
        f == filter_entry(disk, index_rgb_only, index[cur.i], cur.purge)
    IN  /\ pc = "filter"
        /\ cur.i <= Len(index)
        /\ disk' = f.disk
        /\ index_rgb_only' = f.acc
        /\ err' = f.exc
        /\ pc' = IF f.exc # "none" THEN "failed" ELSE pc
        /\ cur' = [cur EXCEPT !.i = cur.i + 1]
        /\ UNCHANGED <<disk0, args, _root, _dataset, _image_size, limit,
                       _indices, built, ret>>

\* _filter_non_rgb, line 134: the index of the current dataset is replaced.
FilterReplace ==
    /\ pc = "filter"
    /\ cur.i > Len(_indices[Datasets[cur.ds]])
    /\ _indices' = [_indices EXCEPT ![Datasets[cur.ds]] = index_rgb_only]
    /\ index_rgb_only' = <<>>
    /\ cur' = [cur EXCEPT !.ds = cur.ds + 1, !.i = 1]
    /\ pc' = IF cur.ds = Len(Datasets) THEN "ready" ELSE pc
    /\ args' = IF cur.ds = Len(Datasets) THEN Returned(args) ELSE args
    /\ UNCHANGED <<disk, disk0, err, _root, _dataset, _image_size, limit,
                   built, ret>>

Idle == pc = "ready" /\ ret.op = "none"

\* len(handle)
LenCall ==
    LET v == __len__(_indices, _dataset, limit)
    IN  /\ Idle
        /\ ret' = [NoRet EXCEPT !.op = "len", !.value = v,
                     !.exc = IF v < 0 THEN "ValueError" ELSE "none"]
        /\ UNCHANGED <<disk, disk0, pc, args, err, _root, _dataset, _image_size,
                       limit, _indices, built, cur, index_rgb_only>>

\* handle[index], index an integer.
GetItem(index) ==
    LET g == _getitem(disk, _indices, _dataset, _image_size, index)
    IN  /\ Idle
        /\ ret' = [NoRet EXCEPT !.op = "get", !.index = index, !.exc = g.exc,
                     !.shape = g.shape, !.path = g.path, !.calls = g.calls]
        /\ UNCHANGED <<disk, disk0, pc, args, err, _root, _dataset, _image_size,
                       limit, _indices, built, cur, index_rgb_only>>

\* handle[start:stop:step]
GetSlice(start, stop, step) ==
    LET r == slice_range(_indices, _dataset, start, stop, step)
        g == GetAll(disk, _indices, _dataset, _image_size, r, 1, <<>>, <<>>)
    IN  /\ Idle
        /\ ret' = IF step = Some(0)
                  THEN [NoRet EXCEPT !.op = "slice", !.exc = "ValueError"]
                  ELSE [NoRet EXCEPT !.op = "slice", !.exc = g.exc, !.range = r,
                          !.tried = g.tried, !.items = g.items]
        /\ UNCHANGED <<disk, disk0, pc, args, err, _root, _dataset, _image_size,
                       limit, _indices, built, cur, index_rgb_only>>

\* handle.dataset = dataset
SetDataset(dataset) ==
    LET e == dataset_setter(dataset)
    IN  /\ Idle
        /\ _dataset' = IF e = "none" THEN dataset ELSE _dataset
        /\ ret' = [NoRet EXCEPT !.op = "set_dataset", !.exc = e]
        /\ UNCHANGED <<disk, disk0, pc, args, err, _root, _image_size, limit,
                       _indices, built, cur, index_rgb_only>>

\* handle.image_size = image_size
SetImageSize(image_size) ==
    LET e == image_size_setter(image_size)
    IN  /\ Idle
        /\ _image_size' = IF e = "none" THEN image_size ELSE _image_size
        /\ ret' = [NoRet EXCEPT !.op = "set_image_size", !.exc = e]
        /\ UNCHANGED <<disk, disk0, pc, args, err, _root, _dataset, limit,
                       _indices, built, cur, index_rgb_only>>

\* handle.limit = lim
SetLimit(lim) ==
    /\ Idle
    /\ limit' = lim
    /\ ret' = [NoRet EXCEPT !.op = "set_limit"]
    /\ UNCHANGED <<disk, disk0, pc, args, err, _root, _dataset, _image_size,
                   _indices, built, cur, index_rgb_only>>

\* handle.root = root
SetRoot(root) ==
    LET e == root_setter(disk, root)
    IN  /\ Idle
        /\ _root' = IF e = "none" THEN root ELSE _root
        /\ ret' = [NoRet EXCEPT !.op = "set_root", !.exc = e]
        /\ UNCHANGED <<disk, disk0, pc, args, err, _dataset, _image_size, limit,
                       _indices, built, cur, index_rgb_only>>

\* The call returns to the caller, or its exception reaches it.
Return ==
    /\ pc = "ready"
    /\ ret.op # "none"
    /\ ret' = NoRet
    /\ UNCHANGED <<disk, disk0, pc, args, err, _root, _dataset, _image_size,
                   limit, _indices, built, cur, index_rgb_only>>

Next ==
    \/ \E root \in InitRootInputs, dataset \in DatasetInputs,
          image_size \in SizeInputs,
          lim \in InitLimitInputs, clean \in CleanInputs :
          Construct(root, dataset, image_size, lim, clean)
    \/ \E sigma \in Perms(MaxChildren) : Build(sigma)
    \/ Clean
    \/ FilterEntry
    \/ FilterReplace
    \/ LenCall
    \/ \E index \in IndexInputs : GetItem(index)
    \/ \E start \in BoundInputs, stop \in BoundInputs, step \in StepInputs :
          GetSlice(start, stop, step)
    \/ \E dataset \in DatasetInputs : SetDataset(dataset)
    \/ \E image_size \in SizeInputs : SetImageSize(image_size)
    \/ \E lim \in LimitInputs : SetLimit(lim)
    \/ \E root \in RootInputs : SetRoot(root)
    \/ Return

Spec == Init /\ [][Next]_vars

(***************************************************************************)
(* What the properties are stated with.                                    *)
(***************************************************************************)
Splits == {DATASET_TRAIN, DATASET_VAL, DATASET_TEST}

\* Is-RGB: exactly 3 dimensions and exactly 3 entries along the last one.
IsRGB(shape) == Len(shape) = 3 /\ shape[Len(shape)] = 3

\* The decoded array is a 64 x 64 RGB image.
IsValidImage(e) ==
    /\ e.readable
    /\ IsRGB(e.shape)
    /\ e.shape[1] = IMAGE_SIZE_ACTUAL
    /\ e.shape[2] = IMAGE_SIZE_ACTUAL

\* The entries of index whose file, as it was before cleaning, is RGB.
RGBOnly(index) == SelectSeq(index, LAMBDA p : IsRGB(entry(disk0, p).shape))

Elems(seq) == {seq[k] : k \in DOMAIN seq}

LimitIsSet == limit # None /\ limit[1] >= 0

\* min(itemLimit, length of the active split's index), or that length.
BoundedLen ==
    IF limit = None THEN Len(_indices[_dataset])
    ELSE IF limit[1] <= Len(_indices[_dataset]) THEN limit[1]
    ELSE Len(_indices[_dataset])

\* The files deleted since the handle was constructed on the tree.
Deleted == (DOMAIN disk0) \ (DOMAIN disk)

\* The path the last handle[index] addressed.
AddressedPath == _indices[_dataset][ListPos(Len(_indices[_dataset]), ret.index)]

GotItem == pc = "ready" /\ ret.op = "get" /\ ListPos(Len(_indices[_dataset]), ret.index) # 0

\* A configuration the property setters reject.
BadSetting(a) ==
    \/ ~isdir(disk0, a.root)
    \/ a.dataset \notin Splits
    \/ a.image_size < IMAGE_SIZE_ACTUAL

\* A cleaning mode _clean rejects.
BadClean(a) == a.clean \notin {CLEAN_ASSUME, CLEAN_SKIP, CLEAN_PURGE}

\* The entries directory dir lists.
ListedIn(dir) ==
    {Join(dir, Basename(p)) : p \in
        {q \in DOMAIN disk0 : /\ isdir(disk0, dir)
                              /\ RFind(q, "/") # 0
                              /\ Dirname(q) = Resolve(dir)
                              /\ Basename(q)[1] # "."}}

\* The file name without its extension.
Stem(p) == rsplit_dot(Basename(p))

HasDigitRun(p) == re_search_digits(Stem(p)) # 0

\* (prefix, integer value of the trailing digit run) of the stem.
NameKey(p) ==
    [base |-> SubSeq(Stem(p), 1, re_search_digits(Stem(p)) - 1),
     num |-> int(SubSeq(Stem(p), re_search_digits(Stem(p)), Len(Stem(p))))]

ImagesOf(root, split) == ListedIn(Join(Join(root, split), IMAGES))

TrainImagesOf(root) ==
    UNION {ListedIn(Join(c, IMAGES)) : c \in ListedIn(Join(root, DATASET_TRAIN))}

\* The files the build of the indices of root lists.
AllListed(root) ==
    TrainImagesOf(root) \union ImagesOf(root, DATASET_VAL)
    \union ImagesOf(root, DATASET_TEST)

NoRepeats(seq) == Cardinality(Elems(seq)) = Len(seq)

\* The class directory of a training image.
ClassOf(p) == Dirname(Dirname(p))

(***************************************************************************)
(* C1: len(handle) is min(itemLimit, length of the active split's index)   *)
(* when itemLimit is set to a non-negative integer, and the length of the  *)
(* active split's index when it is unset, whatever was assigned before.    *)
(***************************************************************************)
C1_LenContract ==
    (pc = "ready" /\ ret.op = "len" /\ (limit = None \/ LimitIsSet)) =>
        /\ ret.exc = "none"
        /\ ret.value = BoundedLen
        /\ LimitIsSet => ret.value <= limit[1]
        /\ limit = None => ret.value = Len(_indices[_dataset])

\* len() after the limit and the split were assigned, the limit below the
\* length of the index.
C1_Witness ==
    /\ pc = "ready" /\ ret.op = "len"
    /\ limit = Some(MaxLimit)
    /\ _dataset = DATASET_VAL
    /\ Len(_indices[_dataset]) > MaxLimit
    /\ ret.value = MaxLimit

(***************************************************************************)
(* C2: handle[slice] retrieves only positions p with 0 <= p < len(handle): *)
(* positions at or beyond the limit are unreachable.                       *)
(***************************************************************************)
C2_SliceWithinLen ==
    (pc = "ready" /\ ret.op = "slice" /\ (limit = None \/ LimitIsSet)) =>
        /\ \A k \in DOMAIN ret.range : 0 <= ret.range[k] /\ ret.range[k] < BoundedLen
        /\ \A k \in DOMAIN ret.tried : 0 <= ret.tried[k] /\ ret.tried[k] < BoundedLen

(***************************************************************************)
(* C3: get(position) on a file that decodes to a valid 64x64 RGB image     *)
(* completes and returns an array of shape (3, targetImageSize,            *)
(* targetImageSize) with the path splitIndex[activeSplit][position].       *)
(***************************************************************************)
C3_GetValid ==
    (GotItem /\ ret.index >= 0 /\ IsValidImage(entry(disk, AddressedPath))) =>
        /\ ret.exc = "none"
        /\ ret.shape = <<3, _image_size, _image_size>>
        /\ ret.path = AddressedPath

(***************************************************************************)
(* C4: whatever the cleaning mode and targetImageSize, get(position) on a  *)
(* file whose array is not 3-dimensional with 3 channels, or whose first   *)
(* two dimensions are not both 64, ends in an assertion failure raised     *)
(* before any resize or colour conversion; it returns no result.           *)
(***************************************************************************)
C4_BadFileAsserts ==
    (GotItem /\ entry(disk, AddressedPath).readable /\ ~IsValidImage(entry(disk, AddressedPath))) =>
        /\ ret.exc = "AssertionError"
        /\ ret.calls = <<"imread">>
        /\ ret.shape = <<>>

\* An RGB image of the wrong size, kept by SKIP, is got at a target size
\* other than the native one.
C4_Witness ==
    /\ GotItem
    /\ args.clean = CLEAN_SKIP
    /\ _image_size # IMAGE_SIZE_ACTUAL
    /\ IsRGB(entry(disk, AddressedPath).shape)
    /\ ~IsValidImage(entry(disk, AddressedPath))
    /\ ret.exc = "AssertionError"

(***************************************************************************)
(* C5: with clean=SKIP, after construction every split's index is exactly  *)
(* the subsequence of the built index of the entries that satisfy Is-RGB,  *)
(* in their order, whichever split is active, and no file is deleted.      *)
(***************************************************************************)
C5_SkipFilters ==
    (pc = "ready" /\ args.clean = CLEAN_SKIP) =>
        /\ \A s \in Splits : _indices[s] = RGBOnly(built[s])
        /\ disk = disk0

\* SKIP dropped an entry of a split that is not the active one and kept one.
C5_Witness ==
    /\ pc = "ready" /\ args.clean = CLEAN_SKIP
    /\ \E s \in Splits :
        /\ s # _dataset
        /\ _indices[s] # <<>>
        /\ Len(_indices[s]) < Len(built[s])
        /\ \E k \in DOMAIN built[s] : Len(entry(disk0, built[s][k]).shape) = 3
                                      /\ ~IsRGB(entry(disk0, built[s][k]).shape)

(***************************************************************************)
(* C6: with clean=PURGE, once a split's index has been replaced, and so    *)
(* after a pass that completes for all three: that index is what SKIP      *)
(* produces, the file of every rejected entry of the split is gone, the    *)
(* file of every retained entry exists, and the deletions came before the  *)
(* replacement.                                                            *)
(***************************************************************************)
C6_PurgeDeletes ==
    (pc \in {"filter", "ready"} /\ args.clean = CLEAN_PURGE) =>
        \A k \in 1..Len(Datasets) :
            (pc = "ready" \/ k < cur.ds) =>
                /\ _indices[Datasets[k]] = RGBOnly(built[Datasets[k]])
                /\ \A p \in Elems(built[Datasets[k]]) :
                       IF IsRGB(entry(disk0, p).shape)
                       THEN Resolve(p) \in DOMAIN disk
                            /\ entry(disk, p) = entry(disk0, p)
                       ELSE Resolve(p) \notin DOMAIN disk

\* A PURGE pass that completed and deleted a file.
C6_Witness ==
    /\ pc = "ready" /\ args.clean = CLEAN_PURGE
    /\ Deleted # {}
    /\ \E s \in Splits : _indices[s] # <<>>

(***************************************************************************)
(* C7: each of the four bad configurations (root not a directory, split    *)
(* name not train, val or test, image_size below 64, clean mode not        *)
(* assume, skip or purge) makes construction fail with the configuration   *)
(* error, the undersized image_size like the other three; none of them     *)
(* gets past the assignments or the cleaning to a handle.                  *)
(***************************************************************************)
C7_ConfigErrors ==
    /\ (pc \in {"build", "clean", "filter"}) => ~BadSetting(args)
    /\ pc \in {"filter", "ready"} => ~BadClean(args)
    /\ (pc = "failed" /\ (BadSetting(args) \/ BadClean(args))
          /\ err \notin {"AttributeError", "DecodeError"}) => err = "ValueError"

(***************************************************************************)
(* C8: the built index of TRAIN is the concatenation, in lexicographic     *)
(* order of class-subdirectory path, of each class's images/* listing;     *)
(* that of VAL and TEST is the images/* listing of the split; every        *)
(* listing is sorted by (prefix of the extension-stripped name, integer    *)
(* value of its trailing digit run); an empty or missing directory gives   *)
(* an empty sequence; the build fails when a listed file has no trailing   *)
(* digit run.                                                              *)
(***************************************************************************)
C8_BuiltOrder ==
    /\ (pc \in {"clean", "filter"}) =>
        /\ \A p \in AllListed(_root) : HasDigitRun(p)
        /\ \A s \in {DATASET_VAL, DATASET_TEST} :
            /\ Elems(built[s]) = ImagesOf(_root, s)
            /\ NoRepeats(built[s])
            /\ \A i, j \in DOMAIN built[s] :
                   i < j => ~KeyLess(NameKey(built[s][j]), NameKey(built[s][i]))
        /\ Elems(built[DATASET_TRAIN]) = TrainImagesOf(_root)
        /\ NoRepeats(built[DATASET_TRAIN])
        /\ \A i, j \in DOMAIN built[DATASET_TRAIN] :
               LET a == built[DATASET_TRAIN][i]
                   b == built[DATASET_TRAIN][j]
               IN  i < j =>
                       IF ClassOf(a) = ClassOf(b)
                       THEN ~KeyLess(NameKey(b), NameKey(a))
                       ELSE StrLess(ClassOf(a), ClassOf(b))
    /\ (pc = "failed" /\ err = "AttributeError") =>
           \E p \in AllListed(args.root) : ~HasDigitRun(p)

(***************************************************************************)
(* C9: a file is deleted only during a PURGE cleaning pass and only if it  *)
(* is an indexed entry failing Is-RGB; with clean=ASSUME every index is    *)
(* the built one and no file is deleted; a construction that fails on its  *)
(* configuration deletes no file, whatever clean mode it was given.        *)
(***************************************************************************)
C9_DeletionOnlyPurge ==
    /\ \A p \in DOMAIN disk : p \in DOMAIN disk0 /\ disk[p] = disk0[p]
    /\ \A p \in Deleted :
        /\ args.clean = CLEAN_PURGE
        /\ pc \in {"filter", "ready", "failed"}
        /\ \E s \in Splits : \E q \in Elems(built[s]) : Resolve(q) = p
        /\ ~disk0[p].dir
        /\ ~IsRGB(entry(disk0, p).shape)
    /\ (pc = "ready" /\ args.clean = CLEAN_ASSUME) =>
           /\ \A s \in Splits : _indices[s] = built[s]
           /\ disk = disk0
    /\ (pc = "failed" /\ err \in {"ValueError", "AssertionError"}) => disk = disk0

\* A construction given clean=PURGE on a tree with a non-RGB image failed on
\* its image_size and deleted nothing.
C9_Witness ==
    /\ pc = "failed"
    /\ args.clean = CLEAN_PURGE
    /\ args.image_size < IMAGE_SIZE_ACTUAL
    /\ isdir(disk0, args.root)
    /\ \E p \in AllListed(args.root) : ~IsRGB(entry(disk0, p).shape)
    /\ disk = disk0

(***************************************************************************)
(* C10: once construction has finished, no operation on the handle changes *)
(* the contents of any split's index or deletes a file; a rejected         *)
(* assignment leaves the assigned field at its previous value; the active  *)
(* split is always one of train, val, test and the target size at least 64.*)
(***************************************************************************)
C10_Frame ==
    /\ [][pc = "ready" =>
            /\ pc' = "ready"
            /\ _indices' = _indices
            /\ disk' = disk
            /\ ret'.exc # "none" =>
                   /\ _root' = _root
                   /\ _dataset' = _dataset
                   /\ _image_size' = _image_size
                   /\ limit' = limit]_vars
    /\ [](pc = "ready" =>
            /\ _dataset \in Splits
            /\ _image_size >= IMAGE_SIZE_ACTUAL
            /\ isdir(disk, _root))

\* An assignment to image_size was rejected after another was accepted.
C10_Witness ==
    /\ pc = "ready"
    /\ ret.op = "set_image_size"
    /\ ret.exc = "AssertionError"
    /\ _image_size = 2 * IMAGE_SIZE_ACTUAL
    /\ _dataset = DATASET_TEST
    /\ _root = Join(ROOT, DATASET_VAL)

====
